---- MODULE Spec2Model ----
(***************************************************************************)
(* AutoCodeGuard: the orchestration core of src/src/repo_analyzer.py       *)
(* (analyze_repo, create_linter_configs, the local analyze_javascript) and *)
(* the language analyzers of src/src/analyzers/.                           *)
(*                                                                         *)
(* A run of analyze_repo is cut into steps at the points where the program *)
(* waits for the outside world: the clone (Repo.clone_from) and every      *)
(* subprocess.run.  Everything between two such points is one action.      *)
(*                                                                         *)
(* File names are sequences of their dot-separated components, so          *)
(* "lib.min.js" is <<"lib", "min", "js">> and ".pylintrc" is               *)
(* <<"", "pylintrc">>.  Texts (tool output, issues) are sequences of       *)
(* lines, a line being a sequence of words.                                *)
(***************************************************************************)
EXTENDS Integers, Sequences, FiniteSets, TLC

\* Bounds of the model.
MaxFiles == 2          \* files in the cloned repository

(***************************************************************************)
(* Names and suffixes                                                      *)
(***************************************************************************)

\* A suffix test that ignores the case of the extension.
EndsWithIgnoringCase(name, suffix) ==
    LET lower(w) == IF w = "PY" THEN "py" ELSE w
    IN  /\ Len(name) >= Len(suffix)
        /\ \A i \in 2..Len(suffix) :
             lower(name[Len(name) - Len(suffix) + i]) = suffix[i]
\* str.endswith(suffix) for a suffix that starts with a dot: ".min.js" is
\* <<"", "min", "js">>; its first component matches the tail of any component.
EndsWith(name, suffix) ==
    /\ Len(name) >= Len(suffix)
    /\ \A i \in 2..Len(suffix) : name[Len(name) - Len(suffix) + i] = suffix[i]

PY == <<"", "py">>
JS == <<"", "js">>
MINJS == <<"", "min", "js">>
HTML == <<"", "html">>
CSS == <<"", "css">>
JAVA == <<"", "java">>

\* The config file list of create_linter_configs, in its order.
ConfigFiles ==
    << <<"", "pylintrc">>, <<"eslintconfig", "js">>,
       <<"htmlhint", "config", "js">>, <<"stylelint", "config", "js">> >>

\* A skip set that has lost the Stylelint config, still provisioned.
SkipNamesWithoutStylelint ==
    { <<"", "pylintrc">>, <<"eslintconfig", "js">>, <<"htmlhint", "config", "js">> }
\* The set literal of the skip test in the walk.
SkipNames ==
    { <<"", "pylintrc">>, <<"eslintconfig", "js">>,
      <<"htmlhint", "config", "js">>, <<"stylelint", "config", "js">> }

Langs == {"Python", "JavaScript", "HTML", "CSS", "Java"}

\* Files a cloned repository may hold: [dir, name].  "." is the checkout root.
\* The names without a source suffix stand for README, .git/* and the like.
RootNames ==
    { <<"a", "py">>, <<"b", "js">>, <<"lib", "min", "js">>, <<"i", "html">>,
      <<"s", "css">>, <<"M", "java">>, <<"x", "PY">>, <<"README">>,
      <<"", "pylintrc">>, <<"eslintconfig", "js">> }
SubNames ==
    { <<"b", "js">>, <<"c", "js">>, <<"eslintconfig", "js">>,
      <<"stylelint", "config", "js">>, <<"htmlhint", "config", "js">> }
Universe ==
    { [dir |-> ".", name |-> n] : n \in RootNames } \cup
    { [dir |-> "sub", name |-> n] : n \in SubNames }

Repos == { r \in SUBSET Universe : Cardinality(r) <= MaxFiles }

\* What src/src/config may hold when the program runs (os.path.exists decides).
AllConfigs == { ConfigFiles[i] : i \in 1..Len(ConfigFiles) }
ConfigDirs == { {}, {<<"", "pylintrc">>, <<"eslintconfig", "js">>}, AllConfigs }

\* The names tempfile.mkdtemp may hand out: any of them that does not exist.
TempNames == {"tmp1", "tmp2"}

(***************************************************************************)
(* Texts and tool outcomes                                                 *)
(***************************************************************************)

\* str.count(word): the words used below are such that none occurs inside another.
Count(text, word) ==
    Cardinality({ p \in { <<i, j>> : i \in 1..Len(text), j \in 1..3 } :
                    /\ p[2] <= Len(text[p[1]])
                    /\ text[p[1]][p[2]] = word })

\* str.strip() on a text: leading and trailing blank lines go, inner ones stay.
RECURSIVE StripHead(_)
StripHead(text) ==
    IF text = <<>> THEN <<>>
    ELSE IF Head(text) = <<>> THEN StripHead(Tail(text)) ELSE text

RECURSIVE StripTail(_)
StripTail(text) ==
    IF text = <<>> THEN <<>>
    ELSE IF text[Len(text)] = <<>> THEN StripTail(SubSeq(text, 1, Len(text) - 1))
    ELSE text

Strip(text) == StripTail(StripHead(text))

\* A line count that leaves the blank lines out.
SplitLinesNonBlankLen(text) == Cardinality({ i \in 1..Len(text) : text[i] # <<>> })
\* len(text.splitlines())
SplitLinesLen(text) == Len(text)

\* Non-ASCII glyphs are written by code point: "U+2716" is the heavy cross the
\* CSS analyzer counts, "U+2717" the ballot cross of the HTML analyzer, "U+26A0"
\* the warning sign of both.

\* What one subprocess.run can do: raise (executable missing), or return an
\* exit code with captured stdout and stderr.
Raises ==
    [raised |-> TRUE, msg |-> "No such file or directory", rc |-> 0,
     stdout |-> <<>>, stderr |-> <<>>]
RanClean ==
    [raised |-> FALSE, msg |-> "", rc |-> 0, stdout |-> <<>>, stderr |-> <<>>]
RanIssues ==
    [raised |-> FALSE, msg |-> "", rc |-> 1,
     stdout |-> << <<"1:1", "error", "ERROR">>, <<"2:1", "U+2716", "U+2717">>,
                   <<"3:1", "Warning", "U+26A0">>, <<>> >>,
     stderr |-> <<>>]
RanCrashed ==
    [raised |-> FALSE, msg |-> "", rc |-> 2,
     stdout |-> <<>>, stderr |-> << <<"Error", "crashed">> >>]

Outcomes == {Raises, RanClean, RanIssues, RanCrashed}

(***************************************************************************)
(* The analyzers: the FileResult each builds from its tools' outcomes       *)
(***************************************************************************)

\* The except branch of analyze_html, analyze_css and analyze_java.
FailureResult(rel_path, msg) ==
    [file |-> rel_path, issues |-> << <<"Analysis failed:", msg>> >>,
     error_count |-> 1, warning_count |-> 0]

\* An except branch of analyze_python that rates the failure "Poor".
PythonFailureResultRatedPoor(rel_path, msg) ==
    [file |-> rel_path, issues |-> << <<"Analysis failed:", msg>> >>,
     error_count |-> 1, warning_count |-> 0, rating |-> "Poor"]
\* The except branch of analyze_python.
PythonFailureResult(rel_path, msg) ==
    [file |-> rel_path, issues |-> << <<"Analysis failed:", msg>> >>,
     error_count |-> 1, warning_count |-> 0, rating |-> "Error"]

\* stdout when the exit code is 0 or 1, else stderr (Pylint, HTMLHint, Stylelint).
IssuesByExitCode(o) == IF o.rc \in {0, 1} THEN o.stdout ELSE o.stderr

\* Checkstyle treated like the other tools: exit code 1 accepted as well.
JavaIssuesAcceptOne(o) == IF o.rc \in {0, 1} THEN o.stdout ELSE o.stderr
\* Checkstyle: stdout only when the exit code is 0.
JavaIssuesByExitCode(o) == IF o.rc = 0 THEN o.stdout ELSE o.stderr

\* A rating that turns "Poor" from five errors on.
RatingPoorFromFive(error_count, warning_count) ==
    IF error_count >= 5 THEN "Poor"
    ELSE IF error_count = 0 /\ warning_count = 0 THEN "Good"
    ELSE "Needs Improvement"
Rating(error_count, warning_count) ==
    IF error_count > 5 THEN "Poor"
    ELSE IF error_count = 0 /\ warning_count = 0 THEN "Good"
    ELSE "Needs Improvement"

\* analyze_python once both tools have returned.
PythonResult(rel_path, pylint, flake8) ==
    LET pylint_issues == IssuesByExitCode(pylint)
        pylint_error_count ==
            Count(pylint_issues, "error") + Count(pylint_issues, "Error")
        pylint_warning_count ==
            Count(pylint_issues, "warning") + Count(pylint_issues, "Warning")
        flake8_issues == Strip(flake8.stdout)
        flake8_error_count ==
            IF flake8_issues # <<>> THEN SplitLinesLen(flake8_issues) ELSE 0
        flake8_warning_count == 0
        total_error_count == pylint_error_count + flake8_error_count
        total_warning_count == pylint_warning_count + flake8_warning_count
    IN  [file |-> rel_path,
         issues |-> << <<"Pylint Issues:">> >> \o pylint_issues \o
                    << <<>>, <<"Flake8 Issues:">> >> \o flake8_issues,
         error_count |-> total_error_count,
         warning_count |-> total_warning_count,
         rating |-> Rating(total_error_count, total_warning_count)]

\* The rating of analyze_javascript: warnings play no part.
JsRating(error_count) ==
    IF error_count > 5 THEN "Poor"
    ELSE IF error_count = 0 THEN "Good" ELSE "Needs Improvement"

\* An analyze_javascript that reads the exit code, as the other analyzers do.
JavaScriptResultByExitCode(rel_path, eslint) ==
    LET eslint_issues == IF eslint.rc \in {0, 1} THEN Strip(eslint.stdout)
                         ELSE eslint.stderr
        error_count == IF eslint_issues # <<>> THEN SplitLinesLen(eslint_issues) ELSE 0
    IN  [file |-> rel_path, issues |-> eslint_issues, error_count |-> error_count,
         warning_count |-> 0, rating |-> JsRating(error_count)]
\* analyze_javascript of repo_analyzer.py once ESLint has returned.
JavaScriptResult(rel_path, eslint) ==
    LET eslint_issues == Strip(eslint.stdout)
        error_count == IF eslint_issues # <<>> THEN SplitLinesLen(eslint_issues) ELSE 0
    IN  [file |-> rel_path, issues |-> eslint_issues, error_count |-> error_count,
         warning_count |-> 0, rating |-> JsRating(error_count)]

\* A .min.js branch that reports the skip as one error.
MinifiedResultAsError(rel_path) ==
    [file |-> rel_path, issues |-> << <<"Minified files are skipped.">> >>,
     error_count |-> 1, warning_count |-> 0, rating |-> "Needs Improvement"]
\* The .min.js branch of analyze_javascript.
MinifiedResult(rel_path) ==
    [file |-> rel_path, issues |-> << <<"Minified files are skipped.">> >>,
     error_count |-> 0, warning_count |-> 0, rating |-> "Good"]

HtmlResult(rel_path, o) ==
    LET issues == IssuesByExitCode(o)
    IN  [file |-> rel_path, issues |-> issues,
         error_count |-> Count(issues, "U+2717"),
         warning_count |-> Count(issues, "U+26A0")]

CssResult(rel_path, o) ==
    LET issues == IssuesByExitCode(o)
    IN  [file |-> rel_path, issues |-> issues,
         error_count |-> Count(issues, "U+2716"),
         warning_count |-> Count(issues, "U+26A0")]

JavaResult(rel_path, o) ==
    LET issues == JavaIssuesByExitCode(o)
    IN  [file |-> rel_path, issues |-> issues,
         error_count |-> Count(issues, "ERROR"),
         warning_count |-> Count(issues, "WARN")]

(***************************************************************************)
(* State                                                                   *)
(***************************************************************************)

VARIABLES
    repo,             \* the files of the remote repository (what a clone yields)
    configDir,        \* the config files present in src/src/config
    listing,          \* the order in which directories list their files
    fs,               \* the temp directories that exist: directory |-> its files
    pc,               \* "idle", "clone", "walk" or "tool"
    temp_dir,         \* the directory mkdtemp gave the current run
    total_files,
    processed_files,
    todo,             \* entries the second os.walk has still to yield
    cur,              \* rel_path of the file an analyzer is working on
    tool,             \* the tool whose subprocess is running
    pending,          \* Pylint's outcome while Flake8 runs
    results,          \* the dict built by the current run
    report,           \* what the last call returned
    outcome,          \* "none", "running", "returned" or "raised"
    status,           \* status_callback events of the current run
    logs,             \* log_callback events of the current run
    invocations,      \* subprocess.run calls of the current run
    removed,          \* shutil.rmtree calls of the current run
    crashes,          \* rel_path of each file a tool of which raised, this run
    probe             \* the tool results an analyzer checked on its own is given

vars ==
    <<repo, configDir, listing, fs, pc, temp_dir, total_files, processed_files, todo,
      cur, tool, pending, results, report, outcome, status, logs, invocations,
      removed, crashes, probe>>

NoFile == [dir |-> "", name |-> <<>>]
NoOutcome == [raised |-> FALSE, msg |-> "", rc |-> -1, stdout |-> <<>>, stderr |-> <<>>]
NoReport == <<>>
EmptyResults == [l \in Langs |-> <<>>]

Rel(f) == [dir |-> f.dir, name |-> f.name]
LogEvent(ev, file) == [ev |-> ev, file |-> file]
Progress(n, total, rel_path) ==
    [kind |-> "Analyzing", processed |-> n, total |-> total, file |-> rel_path]
Invocation(t, rel_path, cwd) == [tool |-> t, file |-> rel_path, cwd |-> cwd]

\* A copy that leaves a file the repository already has in place.
create_linter_configs_keeps_existing(ws, cfg) ==
    ws \cup { [dir |-> ".", name |-> ConfigFiles[i], origin |-> "builtin"] :
                i \in { j \in 1..Len(ConfigFiles) :
                          /\ ConfigFiles[j] \in cfg
                          /\ ~\E f \in ws : f.dir = "." /\ f.name = ConfigFiles[j] } }

\* create_linter_configs: every config file that exists in src/src/config is
\* copied to the root of the checkout, over a file of the same name.
create_linter_configs(ws, cfg) ==
    { f \in ws : ~(f.dir = "." /\ \E i \in 1..Len(ConfigFiles) :
                                     ConfigFiles[i] = f.name /\ f.name \in cfg) }
    \cup { [dir |-> ".", name |-> ConfigFiles[i], origin |-> "builtin"] :
             i \in { j \in 1..Len(ConfigFiles) : ConfigFiles[j] \in cfg } }

\* The order in which a directory lists its files is the file system's; the
\* model takes the two opposite orders of the names, so that every two files
\* of a directory are met in either order.
NameOrder ==
    << <<"", "pylintrc">>, <<"M", "java">>, <<"README">>, <<"a", "py">>,
       <<"b", "js">>, <<"c", "js">>, <<"eslintconfig", "js">>,
       <<"htmlhint", "config", "js">>, <<"i", "html">>, <<"lib", "min", "js">>,
       <<"s", "css">>, <<"stylelint", "config", "js">>, <<"x", "PY">> >>
Rank(name) == CHOOSE i \in 1..Len(NameOrder) : NameOrder[i] = name
Listings == {"forward", "reverse"}

\* A listing of the root directory only, as os.listdir would give.
NextFilesRootOnly(left, order) ==
    LET here == { f \in left : f.dir = "." }
    IN  { f \in here : \A g \in here :
            IF order = "forward" THEN Rank(f.name) <= Rank(g.name)
            ELSE Rank(f.name) >= Rank(g.name) }
\* The entry os.walk yields next.  It is top-down: the files of the root come
\* before those of a subdirectory.
NextFiles(left, order) ==
    LET here == IF \E f \in left : f.dir = "." THEN { f \in left : f.dir = "." }
                ELSE left
    IN  { f \in here : \A g \in here :
            IF order = "forward" THEN Rank(f.name) <= Rank(g.name)
            ELSE Rank(f.name) >= Rank(g.name) }

\* A chain that has lost its .css branch.
LanguageWithoutCss(name) ==
    IF EndsWith(name, PY) THEN "Python"
    ELSE IF EndsWith(name, JS) THEN "JavaScript"
    ELSE IF EndsWith(name, HTML) THEN "HTML"
    ELSE IF EndsWith(name, JAVA) THEN "Java"
    ELSE "none"

\* The if/elif chain of the walk.
Language(name) ==
    IF EndsWith(name, PY) THEN "Python"
    ELSE IF EndsWith(name, JS) THEN "JavaScript"
    ELSE IF EndsWith(name, HTML) THEN "HTML"
    ELSE IF EndsWith(name, CSS) THEN "CSS"
    ELSE IF EndsWith(name, JAVA) THEN "Java"
    ELSE "none"

\* A skip test that knows the Pylint rc file only.
IsConfigArtifactPylintrcOnly(name) == name = <<"", "pylintrc">>

IsConfigArtifact(name) == name \in SkipNames

\* A walk without its .min.js test.
IsMinifiedNever(name) == FALSE

\* The orchestrator's own .min.js test, made before analyze_javascript is called.
IsMinified(name) == EndsWith(name, MINJS)

FirstTool(lang) ==
    CASE lang = "Python" -> "pylint"
      [] lang = "JavaScript" -> "eslint"
      [] lang = "HTML" -> "htmlhint"
      [] lang = "CSS" -> "stylelint"
      [] lang = "Java" -> "checkstyle"

\* The log line an analyzer writes before it starts its tool; analyze_javascript
\* writes none.
RunningLog(lang, rel_path) ==
    IF lang = "JavaScript" THEN <<>> ELSE << LogEvent("running", rel_path) >>

\* The working directory of the subprocess: analyze_java passes none.
ToolCwd(lang, dir) == IF lang = "Java" THEN "os.getcwd()" ELSE dir

Init ==
    /\ repo \in Repos
    /\ configDir \in ConfigDirs
    /\ listing \in Listings
    /\ fs = [d \in {} |-> {}]
    /\ pc = "idle"
    /\ temp_dir = ""
    /\ total_files = 0
    /\ processed_files = 0
    /\ todo = {}
    /\ cur = NoFile
    /\ tool = "none"
    /\ pending = NoOutcome
    /\ results = EmptyResults
    /\ report = NoReport
    /\ outcome = "none"
    /\ status = <<>>
    /\ logs = <<>>
    /\ invocations = <<>>
    /\ removed = 0
    /\ crashes = <<>>
    /\ probe = <<NoOutcome, NoOutcome>>

(***************************************************************************)
(* analyze_repo                                                            *)
(***************************************************************************)

\* A results dictionary that lives in the module and outlasts the call.
AnalyzeRepoKeepsResults ==
    /\ pc = "idle"
    /\ \E d \in TempNames \ DOMAIN fs :
         /\ fs' = [x \in DOMAIN fs \cup {d} |-> IF x = d THEN {} ELSE fs[x]]
         /\ temp_dir' = d
    /\ pc' = "clone"
    /\ results' = results
    /\ report' = NoReport
    /\ outcome' = "running"
    /\ total_files' = 0
    /\ processed_files' = 0
    /\ todo' = {}
    /\ status' = <<>>
    /\ logs' = << LogEvent("cloning", NoFile) >>
    /\ invocations' = <<>>
    /\ removed' = 0
    /\ crashes' = <<>>
    /\ UNCHANGED probe
    /\ UNCHANGED <<repo, configDir, listing, cur, tool, pending>>
\* A call that works in one fixed directory, made if it is not there.
AnalyzeRepoFixedDir ==
    /\ pc = "idle"
    /\ fs' = [x \in DOMAIN fs \cup {"tmp1"} |->
                IF x \in DOMAIN fs THEN fs[x] ELSE {}]
    /\ temp_dir' = "tmp1"
    /\ pc' = "clone"
    /\ results' = EmptyResults
    /\ report' = NoReport
    /\ outcome' = "running"
    /\ total_files' = 0
    /\ processed_files' = 0
    /\ todo' = {}
    /\ status' = <<>>
    /\ logs' = << LogEvent("cloning", NoFile) >>
    /\ invocations' = <<>>
    /\ removed' = 0
    /\ crashes' = <<>>
    /\ UNCHANGED probe
    /\ UNCHANGED <<repo, configDir, listing, cur, tool, pending>>

\* The call: the results dict, mkdtemp, the first log line, and the clone starts.
AnalyzeRepo ==
    /\ pc = "idle"
    /\ \E d \in TempNames \ DOMAIN fs :
         /\ fs' = [x \in DOMAIN fs \cup {d} |-> IF x = d THEN {} ELSE fs[x]]
         /\ temp_dir' = d
    /\ pc' = "clone"
    /\ results' = EmptyResults
    /\ report' = NoReport
    /\ outcome' = "running"
    /\ total_files' = 0
    /\ processed_files' = 0
    /\ todo' = {}
    /\ status' = <<>>
    /\ logs' = << LogEvent("cloning", NoFile) >>
    /\ invocations' = <<>>
    /\ removed' = 0
    /\ crashes' = <<>>
    /\ UNCHANGED probe
    /\ UNCHANGED <<repo, configDir, listing, cur, tool, pending>>

\* An except branch without its return: the run goes on into the walk.
CloneFailsFallsThrough ==
    /\ pc = "clone"
    /\ logs' = Append(logs, LogEvent("clone_error", NoFile))
    /\ LET provisioned == create_linter_configs({}, configDir)
       IN  /\ total_files' = 0
           /\ fs' = [fs EXCEPT ![temp_dir] = provisioned]
           /\ todo' = provisioned
    /\ processed_files' = 0
    /\ pc' = "walk"
    /\ UNCHANGED <<crashes, probe, repo, configDir, listing, temp_dir, cur,
                   tool, pending, results, report, outcome, status, invocations,
                   removed>>

\* Repo.clone_from raises: the except branch logs and returns the Error report.
\* The directory made by mkdtemp is left as the failed clone leaves it, empty.
CloneFails ==
    /\ pc = "clone"
    /\ logs' = Append(logs, LogEvent("clone_error", NoFile))
    /\ report' = [k \in {"Error"} |-> << "clone failed" >>]
    /\ outcome' = "returned"
    /\ pc' = "idle"
    /\ UNCHANGED <<crashes, probe, repo, configDir, listing, fs, temp_dir,
                   total_files, processed_files, todo, cur, tool, pending,
                   results, status, invocations, removed>>

\* A count taken after create_linter_configs instead of before it.
CloneSucceedsCountsProvisioned ==
    /\ pc = "clone"
    /\ LET cloned == { [dir |-> f.dir, name |-> f.name, origin |-> "repo"] : f \in repo }
           provisioned == create_linter_configs(cloned, configDir)
       IN  /\ total_files' = Cardinality(provisioned)
           /\ fs' = [fs EXCEPT ![temp_dir] = provisioned]
           /\ todo' = provisioned
    /\ status' = Append(status, [kind |-> "Cloning complete", processed |-> 0,
                                 total |-> 0, file |-> NoFile])
    /\ processed_files' = 0
    /\ pc' = "walk"
    /\ UNCHANGED <<crashes, probe, repo, configDir, listing, temp_dir, cur,
                   tool, pending, results, report, outcome, logs, invocations,
                   removed>>
\* Repo.clone_from returns: status, the file count, create_linter_configs, and
\* the second os.walk begins.
CloneSucceeds ==
    /\ pc = "clone"
    /\ LET cloned == { [dir |-> f.dir, name |-> f.name, origin |-> "repo"] : f \in repo }
           provisioned == create_linter_configs(cloned, configDir)
       IN  /\ total_files' = Cardinality(cloned)
           /\ fs' = [fs EXCEPT ![temp_dir] = provisioned]
           /\ todo' = provisioned
    /\ status' = Append(status, [kind |-> "Cloning complete", processed |-> 0,
                                 total |-> 0, file |-> NoFile])
    /\ processed_files' = 0
    /\ pc' = "walk"
    /\ UNCHANGED <<crashes, probe, repo, configDir, listing, temp_dir, cur,
                   tool, pending, results, report, outcome, logs, invocations,
                   removed>>

\* A config skip placed after the increment of the counter.
SkipConfigCounted ==
    /\ pc = "walk"
    /\ \E f \in NextFiles(todo, listing) :
         /\ IsConfigArtifact(f.name)
         /\ todo' = todo \ {f}
         /\ processed_files' = processed_files + 1
         /\ logs' = Append(logs, LogEvent("skip_config", [dir |-> "", name |-> f.name]))
    /\ UNCHANGED <<crashes, probe, repo, configDir, listing, fs, pc, temp_dir,
                   total_files, cur, tool, pending, results,
                   report, outcome, status, invocations, removed>>

\* One iteration of the walk on a linter config file: logged and skipped.
SkipConfig ==
    /\ pc = "walk"
    /\ \E f \in NextFiles(todo, listing) :
         /\ IsConfigArtifact(f.name)
         /\ todo' = todo \ {f}
         /\ logs' = Append(logs, LogEvent("skip_config", [dir |-> "", name |-> f.name]))
    /\ UNCHANGED <<crashes, probe, repo, configDir, listing, fs, pc, temp_dir,
                   total_files, processed_files, cur, tool, pending, results,
                   report, outcome, status, invocations, removed>>

\* One iteration on a file no branch of the if/elif chain takes.
Ignore ==
    /\ pc = "walk"
    /\ \E f \in NextFiles(todo, listing) :
         /\ ~IsConfigArtifact(f.name)
         /\ Language(f.name) = "none"
         /\ todo' = todo \ {f}
         /\ processed_files' = processed_files + 1
         /\ status' = Append(status, Progress(processed_files + 1, total_files, Rel(f)))
         /\ logs' = Append(logs, LogEvent("processing", Rel(f)))
    /\ UNCHANGED <<crashes, probe, repo, configDir, listing, fs, pc, temp_dir,
                   total_files, cur, tool, pending, results, report, outcome,
                   invocations, removed>>

\* One iteration on a .min.js file: counted, logged, and left out.
SkipMinified ==
    /\ pc = "walk"
    /\ \E f \in NextFiles(todo, listing) :
         /\ ~IsConfigArtifact(f.name)
         /\ Language(f.name) = "JavaScript"
         /\ IsMinified(f.name)
         /\ todo' = todo \ {f}
         /\ processed_files' = processed_files + 1
         /\ status' = Append(status, Progress(processed_files + 1, total_files, Rel(f)))
         /\ logs' = logs \o << LogEvent("processing", Rel(f)),
                               LogEvent("skip_minified", Rel(f)) >>
    /\ UNCHANGED <<crashes, probe, repo, configDir, listing, fs, pc, temp_dir,
                   total_files, cur, tool, pending, results, report, outcome,
                   invocations, removed>>

\* A dispatch that starts the tool and goes on with the walk at once.
DispatchWithoutWaiting ==
    /\ pc = "walk"
    /\ \E f \in NextFiles(todo, listing) :
         LET lang == Language(f.name)
             visited == Append(logs, LogEvent("processing", Rel(f)))
         IN  /\ ~IsConfigArtifact(f.name)
             /\ lang # "none"
             /\ ~(lang = "JavaScript" /\ IsMinified(f.name))
             /\ todo' = todo \ {f}
             /\ processed_files' = processed_files + 1
             /\ status' = Append(status,
                                 Progress(processed_files + 1, total_files, Rel(f)))
             /\ IF lang = "JavaScript" /\ EndsWith(f.name, MINJS)
                THEN /\ logs' = Append(visited, LogEvent("skip_minified", Rel(f)))
                     /\ results' = [results EXCEPT
                                      ![lang] = Append(@, MinifiedResult(Rel(f)))]
                     /\ UNCHANGED <<pc, cur, tool, invocations>>
                ELSE /\ logs' = visited \o RunningLog(lang, Rel(f))
                     /\ pc' = "walk"
                     /\ cur' = Rel(f)
                     /\ tool' = FirstTool(lang)
                     /\ invocations' =
                            Append(invocations,
                                   Invocation(FirstTool(lang), Rel(f),
                                              ToolCwd(lang, temp_dir)))
                     /\ UNCHANGED results
    /\ UNCHANGED <<crashes, probe, repo, configDir, listing, fs, temp_dir,
                   total_files, pending, report, outcome, removed>>
\* One iteration on a source file, up to the analyzer's first subprocess.run.
\* analyze_javascript tests for .min.js again and would return without a tool.
Dispatch ==
    /\ pc = "walk"
    /\ \E f \in NextFiles(todo, listing) :
         LET lang == Language(f.name)
             visited == Append(logs, LogEvent("processing", Rel(f)))
         IN  /\ ~IsConfigArtifact(f.name)
             /\ lang # "none"
             /\ ~(lang = "JavaScript" /\ IsMinified(f.name))
             /\ todo' = todo \ {f}
             /\ processed_files' = processed_files + 1
             /\ status' = Append(status,
                                 Progress(processed_files + 1, total_files, Rel(f)))
             /\ IF lang = "JavaScript" /\ EndsWith(f.name, MINJS)
                THEN /\ logs' = Append(visited, LogEvent("skip_minified", Rel(f)))
                     /\ results' = [results EXCEPT
                                      ![lang] = Append(@, MinifiedResult(Rel(f)))]
                     /\ UNCHANGED <<pc, cur, tool, invocations>>
                ELSE /\ logs' = visited \o RunningLog(lang, Rel(f))
                     /\ pc' = "tool"
                     /\ cur' = Rel(f)
                     /\ tool' = FirstTool(lang)
                     /\ invocations' =
                            Append(invocations,
                                   Invocation(FirstTool(lang), Rel(f),
                                              ToolCwd(lang, temp_dir)))
                     /\ UNCHANGED results
    /\ UNCHANGED <<crashes, probe, repo, configDir, listing, fs, temp_dir,
                   total_files, pending, report, outcome, removed>>

\* A return that keeps only the languages that have results.
FinishDropsEmptyLists ==
    /\ pc = "walk"
    /\ todo = {}
    /\ fs' = [d \in DOMAIN fs \ {temp_dir} |-> fs[d]]
    /\ removed' = removed + 1
    /\ logs' = Append(logs, LogEvent("cleaned", NoFile))
    /\ report' = [l \in { k \in Langs : results[k] # <<>> } |-> results[l]]
    /\ outcome' = "returned"
    /\ pc' = "idle"
    /\ UNCHANGED <<crashes, probe, repo, configDir, listing, temp_dir,
                   total_files, processed_files, todo, cur, tool, pending,
                   results, status, invocations>>

\* The walk is over: rmtree, the last log line, and the results are returned.
Finish ==
    /\ pc = "walk"
    /\ todo = {}
    /\ fs' = [d \in DOMAIN fs \ {temp_dir} |-> fs[d]]
    /\ removed' = removed + 1
    /\ logs' = Append(logs, LogEvent("cleaned", NoFile))
    /\ report' = results
    /\ outcome' = "returned"
    /\ pc' = "idle"
    /\ UNCHANGED <<crashes, probe, repo, configDir, listing, temp_dir,
                   total_files, processed_files, todo, cur, tool, pending,
                   results, status, invocations>>

(***************************************************************************)
(* The analyzers' subprocesses return                                      *)
(***************************************************************************)

\* A walk that puts each new result at the head of its list.
ReturnedPrepends(lang, res, ev) ==
    /\ results' = [results EXCEPT ![lang] = <<res>> \o @]
    /\ logs' = Append(logs, LogEvent(ev, cur))
    /\ pc' = "walk"
    /\ cur' = NoFile
    /\ tool' = "none"
    /\ pending' = NoOutcome

\* The analyzer returns res to the walk, which appends it and goes on.
Returned(lang, res, ev) ==
    /\ results' = [results EXCEPT ![lang] = Append(@, res)]
    /\ logs' = Append(logs, LogEvent(ev, cur))
    /\ pc' = "walk"
    /\ cur' = NoFile
    /\ tool' = "none"
    /\ pending' = NoOutcome

\* analyze_python: Pylint is back.  Flake8 is started, unless Pylint raised.
PylintReturns ==
    /\ pc = "tool"
    /\ tool = "pylint"
    /\ \E o \in Outcomes :
         /\ crashes' = IF o.raised THEN Append(crashes, cur) ELSE crashes
         /\ IF o.raised
            THEN /\ Returned("Python", PythonFailureResult(cur, o.msg), "failed")
                 /\ UNCHANGED invocations
            ELSE /\ pending' = o
                 /\ tool' = "flake8"
                 /\ invocations' =
                        Append(invocations, Invocation("flake8", cur, temp_dir))
                 /\ UNCHANGED <<pc, cur, results, logs>>
    /\ UNCHANGED <<probe, repo, configDir, listing, fs, temp_dir, total_files,
                   processed_files, todo, report, outcome, status, removed>>

\* analyze_python: Flake8 is back.
Flake8Returns ==
    /\ pc = "tool"
    /\ tool = "flake8"
    /\ \E o \in Outcomes :
         /\ crashes' = IF o.raised THEN Append(crashes, cur) ELSE crashes
         /\ IF o.raised
            THEN Returned("Python", PythonFailureResult(cur, o.msg), "failed")
            ELSE Returned("Python", PythonResult(cur, pending, o), "completed")
    /\ UNCHANGED <<probe, repo, configDir, listing, fs, temp_dir, total_files,
                   processed_files, todo, report, outcome, status, invocations,
                   removed>>

\* analyze_javascript of repo_analyzer.py: ESLint is back.  There is no try
\* around subprocess.run, so an exception leaves analyze_repo as well.
EslintReturns ==
    /\ pc = "tool"
    /\ tool = "eslint"
    /\ \E o \in Outcomes :
         /\ crashes' = IF o.raised THEN Append(crashes, cur) ELSE crashes
         /\ IF o.raised
            THEN /\ outcome' = "raised"
                 /\ pc' = "idle"
                 /\ cur' = NoFile
                 /\ tool' = "none"
                 /\ UNCHANGED <<results, logs, pending>>
            ELSE /\ Returned("JavaScript", JavaScriptResult(cur, o), "completed")
                 /\ UNCHANGED outcome
    /\ UNCHANGED <<probe, repo, configDir, listing, fs, temp_dir, total_files,
                   processed_files, todo, report, status, invocations, removed>>

HtmlhintReturns ==
    /\ pc = "tool"
    /\ tool = "htmlhint"
    /\ \E o \in Outcomes :
         /\ crashes' = IF o.raised THEN Append(crashes, cur) ELSE crashes
         /\ IF o.raised
            THEN Returned("HTML", FailureResult(cur, o.msg), "failed")
            ELSE Returned("HTML", HtmlResult(cur, o), "completed")
    /\ UNCHANGED <<probe, repo, configDir, listing, fs, temp_dir, total_files,
                   processed_files, todo, report, outcome, status, invocations,
                   removed>>

StylelintReturns ==
    /\ pc = "tool"
    /\ tool = "stylelint"
    /\ \E o \in Outcomes :
         /\ crashes' = IF o.raised THEN Append(crashes, cur) ELSE crashes
         /\ IF o.raised
            THEN Returned("CSS", FailureResult(cur, o.msg), "failed")
            ELSE Returned("CSS", CssResult(cur, o), "completed")
    /\ UNCHANGED <<probe, repo, configDir, listing, fs, temp_dir, total_files,
                   processed_files, todo, report, outcome, status, invocations,
                   removed>>

CheckstyleReturns ==
    /\ pc = "tool"
    /\ tool = "checkstyle"
    /\ \E o \in Outcomes :
         /\ crashes' = IF o.raised THEN Append(crashes, cur) ELSE crashes
         /\ IF o.raised
            THEN Returned("Java", FailureResult(cur, o.msg), "failed")
            ELSE Returned("Java", JavaResult(cur, o), "completed")
    /\ UNCHANGED <<probe, repo, configDir, listing, fs, temp_dir, total_files,
                   processed_files, todo, report, outcome, status, invocations,
                   removed>>

Next ==
    \/ AnalyzeRepo
    \/ CloneFails
    \/ CloneSucceeds
    \/ SkipConfig
    \/ Ignore
    \/ SkipMinified
    \/ Dispatch
    \/ PylintReturns
    \/ Flake8Returns
    \/ EslintReturns
    \/ HtmlhintReturns
    \/ StylelintReturns
    \/ CheckstyleReturns
    \/ Finish

Spec == Init /\ [][Next]_vars

\* A run in which the clone and every tool invocation come back: once
\* analyze_repo has been called, each of its steps is taken in the end.  Whether
\* analyze_repo is called again is up to the caller.
RunStep ==
    \/ CloneFails
    \/ CloneSucceeds
    \/ SkipConfig
    \/ Ignore
    \/ SkipMinified
    \/ Dispatch
    \/ PylintReturns
    \/ Flake8Returns
    \/ EslintReturns
    \/ HtmlhintReturns
    \/ StylelintReturns
    \/ CheckstyleReturns
    \/ Finish

\* Termination is looked at for one of the two listing orders, with no
\* built-in config file or all four.
LiveInit == Init /\ listing = "forward" /\ configDir \in {{}, AllConfigs}

LiveSpec == LiveInit /\ [][Next]_vars /\ WF_vars(RunStep)

(***************************************************************************)
(* The analyzers on their own: each is called once, on tool results drawn   *)
(* from a wider set than the runs above use                                *)
(***************************************************************************)

MaxLines == 6          \* lines of one tool output

\* n lines of Flake8 (or ESLint) findings.
FindingLines(n) == [i \in 1..n |-> <<"f:1:1", "E501">>]

ProbeStdouts ==
    { FindingLines(n) : n \in 0..MaxLines } \cup
    { << <<"a">>, <<>>, <<"b">> >>,
      << <<>>, <<"a">>, <<>> >>,
      << <<"warning">> >>,
      << <<"error", "Error", "warning">>, <<"Warning", "ERROR", "WARN">>,
         <<"U+2716", "U+2717", "U+26A0">> >> }
ProbeStderrs == { <<>>, << <<"Error", "crashed">> >> }

ProbeOutcomes ==
    {Raises} \cup
    { [raised |-> FALSE, msg |-> "", rc |-> c, stdout |-> out, stderr |-> err] :
        c \in 0..2, out \in ProbeStdouts, err \in ProbeStderrs }

\* An analyze_python with one try per tool: a Flake8 that cannot be started
\* leaves the Pylint findings in the result.
analyze_python_per_tool(rel_path, pylint, flake8) ==
    IF pylint.raised THEN PythonFailureResult(rel_path, pylint.msg)
    ELSE IF flake8.raised THEN PythonResult(rel_path, pylint, RanClean)
    ELSE PythonResult(rel_path, pylint, flake8)
\* analyze_python as a whole: the try covers both subprocess.run calls.
analyze_python(rel_path, pylint, flake8) ==
    IF pylint.raised THEN PythonFailureResult(rel_path, pylint.msg)
    ELSE IF flake8.raised THEN PythonFailureResult(rel_path, flake8.msg)
    ELSE PythonResult(rel_path, pylint, flake8)

analyze_html(rel_path, o) ==
    IF o.raised THEN FailureResult(rel_path, o.msg) ELSE HtmlResult(rel_path, o)

analyze_css(rel_path, o) ==
    IF o.raised THEN FailureResult(rel_path, o.msg) ELSE CssResult(rel_path, o)

analyze_java(rel_path, o) ==
    IF o.raised THEN FailureResult(rel_path, o.msg) ELSE JavaResult(rel_path, o)

\* The subprocess.run calls analyze_python makes: Flake8 only after Pylint.
PythonInvocations(rel_path, pylint, dir) ==
    IF pylint.raised THEN << Invocation("pylint", rel_path, dir) >>
    ELSE << Invocation("pylint", rel_path, dir), Invocation("flake8", rel_path, dir) >>

PythonFile == [dir |-> ".", name |-> <<"a", "py">>]
JavaScriptFiles ==
    { [dir |-> ".", name |-> <<"b", "js">>],
      [dir |-> ".", name |-> <<"lib", "min", "js">>] }
HtmlFile == [dir |-> ".", name |-> <<"i", "html">>]
CssFile == [dir |-> ".", name |-> <<"s", "css">>]
JavaFile == [dir |-> ".", name |-> <<"M", "java">>]

AnalyzerInit ==
    /\ probe \in ProbeOutcomes \X ProbeOutcomes
    /\ pc = "analyzer"
    /\ repo = {}
    /\ configDir = {}
    /\ listing = "forward"
    /\ fs = [d \in {"tmp1"} |-> {}]
    /\ temp_dir = "tmp1"
    /\ total_files = 0
    /\ processed_files = 0
    /\ todo = {}
    /\ cur = NoFile
    /\ tool = "none"
    /\ pending = NoOutcome
    /\ results = EmptyResults
    /\ report = NoReport
    /\ outcome = "none"
    /\ status = <<>>
    /\ logs = <<>>
    /\ invocations = <<>>
    /\ removed = 0
    /\ crashes = <<>>

\* What a call of an analyzer leaves untouched.
AnalyzerFrame ==
    UNCHANGED <<probe, repo, configDir, listing, fs, temp_dir, total_files,
                processed_files, todo, tool, pending, report, status, removed>>

CallPython ==
    /\ pc = "analyzer"
    /\ pc' = "analyzed"
    /\ cur' = PythonFile
    /\ results' = [results EXCEPT
                     !["Python"] = << analyze_python(PythonFile, probe[1], probe[2]) >>]
    /\ invocations' = PythonInvocations(PythonFile, probe[1], temp_dir)
    /\ crashes' = IF probe[1].raised \/ probe[2].raised THEN <<PythonFile>> ELSE <<>>
    /\ logs' = << LogEvent("running", PythonFile),
                  LogEvent(IF probe[1].raised \/ probe[2].raised
                           THEN "failed" ELSE "completed", PythonFile) >>
    /\ UNCHANGED outcome
    /\ AnalyzerFrame

\* analyze_javascript of repo_analyzer.py as a whole.
CallJavaScript ==
    /\ pc = "analyzer"
    /\ pc' = "analyzed"
    /\ \E f \in JavaScriptFiles :
         /\ cur' = f
         /\ IF EndsWith(f.name, MINJS)
            THEN /\ results' = [results EXCEPT !["JavaScript"] = << MinifiedResult(f) >>]
                 /\ logs' = << LogEvent("skip_minified", f) >>
                 /\ UNCHANGED <<invocations, crashes, outcome>>
            ELSE /\ invocations' = << Invocation("eslint", f, temp_dir) >>
                 /\ IF probe[1].raised
                    THEN /\ outcome' = "raised"
                         /\ crashes' = <<f>>
                         /\ UNCHANGED <<results, logs>>
                    ELSE /\ results' = [results EXCEPT
                                          !["JavaScript"] =
                                              << JavaScriptResult(f, probe[1]) >>]
                         /\ logs' = << LogEvent("completed", f) >>
                         /\ UNCHANGED <<crashes, outcome>>
    /\ AnalyzerFrame

\* analyze_html, analyze_css and analyze_java differ in the result they build.
CallGuarded(lang, f, t, res) ==
    /\ pc = "analyzer"
    /\ pc' = "analyzed"
    /\ cur' = f
    /\ results' = [results EXCEPT ![lang] = << res >>]
    /\ invocations' = << Invocation(t, f, ToolCwd(lang, temp_dir)) >>
    /\ crashes' = IF probe[1].raised THEN <<f>> ELSE <<>>
    /\ logs' = << LogEvent("running", f),
                  LogEvent(IF probe[1].raised THEN "failed" ELSE "completed", f) >>
    /\ UNCHANGED outcome
    /\ AnalyzerFrame

CallHtml == CallGuarded("HTML", HtmlFile, "htmlhint", analyze_html(HtmlFile, probe[1]))
CallCss == CallGuarded("CSS", CssFile, "stylelint", analyze_css(CssFile, probe[1]))
CallJava == CallGuarded("Java", JavaFile, "checkstyle", analyze_java(JavaFile, probe[1]))

\* The .js branch of the walk: the .min.js test, then the call of the
\* analyze_javascript defined in repo_analyzer.py, whose result is appended.
WalkJavaScript ==
    /\ pc = "analyzer"
    /\ pc' = "walked"
    /\ \E f \in JavaScriptFiles :
         /\ cur' = f
         /\ IF EndsWith(f.name, MINJS)
            THEN /\ logs' = << LogEvent("skip_minified", f) >>
                 /\ UNCHANGED <<results, invocations, crashes, outcome>>
            ELSE /\ invocations' = << Invocation("eslint", f, temp_dir) >>
                 /\ IF probe[1].raised
                    THEN /\ outcome' = "raised"
                         /\ crashes' = <<f>>
                         /\ UNCHANGED <<results, logs>>
                    ELSE /\ results' = [results EXCEPT
                                          !["JavaScript"] =
                                              Append(@, JavaScriptResult(f, probe[1]))]
                         /\ logs' = << LogEvent("completed", f) >>
                         /\ UNCHANGED <<crashes, outcome>>
    /\ AnalyzerFrame

\* analyze_javascript of analyzers/javascript_analyzer.py, the imported one
\* that the definition in repo_analyzer.py shadows: what it returns, or that
\* the exception of subprocess.run leaves it.
javascript_analyzer_analyze_javascript(rel_path, eslint) ==
    IF EndsWith(rel_path.name, MINJS)
    THEN [propagates |-> FALSE,
          res |-> [file |-> rel_path,
                   issues |-> << <<"Minified files are skipped.">> >>,
                   error_count |-> 0, warning_count |-> 0, rating |-> "Good"]]
    ELSE IF eslint.raised
    THEN [propagates |-> TRUE, res |-> <<>>]
    ELSE LET eslint_issues == Strip(eslint.stdout)
             error_count ==
                 IF eslint_issues # <<>> THEN SplitLinesLen(eslint_issues) ELSE 0
             warning_count == 0
             rating == IF error_count > 5 THEN "Poor"
                       ELSE IF error_count = 0 THEN "Good" ELSE "Needs Improvement"
         IN  [propagates |-> FALSE,
              res |-> [file |-> rel_path, issues |-> eslint_issues,
                       error_count |-> error_count,
                       warning_count |-> warning_count, rating |-> rating]]

AnalyzerNext ==
    \/ CallPython
    \/ CallJavaScript
    \/ CallHtml
    \/ CallCss
    \/ CallJava
    \/ WalkJavaScript

AnalyzerSpec == AnalyzerInit /\ [][AnalyzerNext]_vars

(***************************************************************************)
(* The standalone orchestrator: analyze_repo of src/analyse.py (and of      *)
(* src/app_demo2.py, the same text), which holds the analyzers inline       *)
(***************************************************************************)

\* create_linter_configs of analyse.py writes the four files itself, over
\* whatever the clone holds under these names.
write_linter_configs(ws) ==
    { f \in ws : ~(f.dir = "." /\ f.name \in AllConfigs) }
    \cup { [dir |-> ".", name |-> c, origin |-> "builtin"] : c \in AllConfigs }

\* The tool outcomes taken for this variant.
StandaloneOutcomes == {Raises, RanIssues}

\* "ESLint Error: <stderr>"
EslintErrorIssues(stderr) ==
    IF stderr = <<>> THEN << <<"ESLint Error:">> >>
    ELSE << <<"ESLint Error:">> \o Head(stderr) >> \o Tail(stderr)

StandaloneIssues(lang, o) ==
    CASE lang = "Java" -> IF o.rc = 0 THEN o.stdout ELSE o.stderr
      [] lang = "JavaScript" ->
             IF o.rc \in {0, 1} THEN o.stdout ELSE EslintErrorIssues(o.stderr)
      [] OTHER -> IF o.rc \in {0, 1} THEN o.stdout ELSE o.stderr

StandaloneErrors(lang, issues) ==
    CASE lang = "Python" -> Count(issues, "error") + Count(issues, "Error")
      [] lang = "JavaScript" -> Count(issues, "U+2716")
      [] lang = "HTML" -> Count(issues, "U+2717")
      [] lang = "CSS" -> Count(issues, "U+2716")
      [] lang = "Java" -> Count(issues, "ERROR")

StandaloneWarnings(lang, issues) ==
    CASE lang = "Python" -> Count(issues, "warning") + Count(issues, "Warning")
      [] lang = "Java" -> Count(issues, "WARN")
      [] OTHER -> Count(issues, "U+26A0")

\* One branch of the inline chain: the try body, or its except.
StandaloneResult(lang, rel_path, o) ==
    IF o.raised
    THEN [file |-> rel_path, issues |-> << <<"Analysis failed:", o.msg>> >>,
          error_count |-> 1, warning_count |-> 0]
    ELSE [file |-> rel_path, issues |-> StandaloneIssues(lang, o),
          error_count |-> StandaloneErrors(lang, StandaloneIssues(lang, o)),
          warning_count |-> StandaloneWarnings(lang, StandaloneIssues(lang, o))]

StandaloneInit == Init /\ listing = "forward" /\ configDir = {}

StandaloneAnalyzeRepo ==
    /\ pc = "idle"
    /\ \E d \in TempNames \ DOMAIN fs :
         /\ fs' = [x \in DOMAIN fs \cup {d} |-> IF x = d THEN {} ELSE fs[x]]
         /\ temp_dir' = d
    /\ pc' = "s_clone"
    /\ results' = EmptyResults
    /\ report' = NoReport
    /\ outcome' = "running"
    /\ total_files' = 0
    /\ processed_files' = 0
    /\ todo' = {}
    /\ status' = <<>>
    /\ logs' = << LogEvent("cloning", NoFile) >>
    /\ invocations' = <<>>
    /\ removed' = 0
    /\ crashes' = <<>>
    /\ UNCHANGED <<probe, repo, configDir, listing, cur, tool, pending>>

StandaloneCloneFails ==
    /\ pc = "s_clone"
    /\ logs' = Append(logs, LogEvent("clone_error", NoFile))
    /\ report' = [k \in {"Error"} |-> << "clone failed" >>]
    /\ outcome' = "returned"
    /\ pc' = "idle"
    /\ UNCHANGED <<crashes, probe, repo, configDir, listing, fs, temp_dir,
                   total_files, processed_files, todo, cur, tool, pending,
                   results, status, invocations, removed>>

\* The clone is back: the files are counted, then the config files written.
StandaloneCloneSucceeds ==
    /\ pc = "s_clone"
    /\ LET cloned == { [dir |-> f.dir, name |-> f.name, origin |-> "repo"] : f \in repo }
       IN  /\ total_files' = Cardinality(cloned)
           /\ fs' = [fs EXCEPT ![temp_dir] = write_linter_configs(cloned)]
           /\ todo' = write_linter_configs(cloned)
    /\ status' = Append(status, [kind |-> "Cloning complete", processed |-> 0,
                                 total |-> 0, file |-> NoFile])
    /\ processed_files' = 0
    /\ pc' = "s_walk"
    /\ UNCHANGED <<crashes, probe, repo, configDir, listing, temp_dir, cur,
                   tool, pending, results, report, outcome, logs, invocations,
                   removed>>

\* processed_files / total_files with no file counted: ZeroDivisionError.
StandaloneDivisionByZero ==
    /\ pc = "s_walk"
    /\ todo # {}
    /\ total_files = 0
    /\ processed_files' = processed_files + 1
    /\ outcome' = "raised"
    /\ pc' = "idle"
    /\ UNCHANGED <<crashes, probe, repo, configDir, listing, fs, temp_dir,
                   total_files, todo, cur, tool, pending, results, report,
                   status, logs, invocations, removed>>

\* One iteration, up to the subprocess.run of its branch if it has one: no
\* file is skipped, and .min.js is a .js file like any other.
StandaloneVisit ==
    /\ pc = "s_walk"
    /\ total_files # 0
    /\ \E f \in NextFiles(todo, listing) :
         LET lang == Language(f.name)
         IN  /\ todo' = todo \ {f}
             /\ processed_files' = processed_files + 1
             /\ status' = Append(status,
                                 Progress(processed_files + 1, total_files, Rel(f)))
             /\ IF lang = "none"
                THEN /\ logs' = Append(logs, LogEvent("processing", Rel(f)))
                     /\ UNCHANGED <<pc, cur, tool, invocations>>
                ELSE /\ logs' = logs \o << LogEvent("processing", Rel(f)),
                                           LogEvent("running", Rel(f)) >>
                     /\ pc' = "s_tool"
                     /\ cur' = Rel(f)
                     /\ tool' = FirstTool(lang)
                     /\ invocations' =
                            Append(invocations,
                                   Invocation(FirstTool(lang), Rel(f),
                                              ToolCwd(lang, temp_dir)))
    /\ UNCHANGED <<crashes, probe, repo, configDir, listing, fs, temp_dir,
                   total_files, pending, results, report, outcome, removed>>

\* The tool of the branch is back, or could not be started.
StandaloneToolReturns ==
    /\ pc = "s_tool"
    /\ \E o \in StandaloneOutcomes :
         /\ results' = [results EXCEPT
                          ![Language(cur.name)] =
                              Append(@, StandaloneResult(Language(cur.name), cur, o))]
         /\ logs' = Append(logs, LogEvent(IF o.raised THEN "failed" ELSE "completed",
                                          cur))
         /\ crashes' = IF o.raised THEN Append(crashes, cur) ELSE crashes
    /\ pc' = "s_walk"
    /\ cur' = NoFile
    /\ tool' = "none"
    /\ UNCHANGED <<probe, repo, configDir, listing, fs, temp_dir, total_files,
                   processed_files, todo, pending, report, outcome, status,
                   invocations, removed>>

StandaloneFinish ==
    /\ pc = "s_walk"
    /\ todo = {}
    /\ fs' = [d \in DOMAIN fs \ {temp_dir} |-> fs[d]]
    /\ removed' = removed + 1
    /\ logs' = Append(logs, LogEvent("cleaned", NoFile))
    /\ report' = results
    /\ outcome' = "returned"
    /\ pc' = "idle"
    /\ UNCHANGED <<crashes, probe, repo, configDir, listing, temp_dir,
                   total_files, processed_files, todo, cur, tool, pending,
                   results, status, invocations>>

StandaloneNext ==
    \/ StandaloneAnalyzeRepo
    \/ StandaloneCloneFails
    \/ StandaloneCloneSucceeds
    \/ StandaloneDivisionByZero
    \/ StandaloneVisit
    \/ StandaloneToolReturns
    \/ StandaloneFinish

StandaloneSpec == StandaloneInit /\ [][StandaloneNext]_vars

(***************************************************************************)
(* Properties                                                              *)
(***************************************************************************)

\* The last call of analyze_repo has ended, by a return or by an exception.
RunOver == pc = "idle" /\ outcome \in {"returned", "raised"}

\* The clone of the current run failed.
CloneFailed == \E i \in 1..Len(logs) : logs[i].ev = "clone_error"

SuccessfulRun == outcome = "returned" /\ ~CloneFailed

\* The entries of a report: (key, index) pairs.
Entries(r) == UNION { { <<l, i>> : i \in 1..Len(r[l]) } : l \in DOMAIN r }
TotalEntries(r) == Cardinality(Entries(r))

\* The tests the claims make on a file name, written out from their wording.
NamedMinJs(name) ==
    Len(name) >= 3 /\ name[Len(name) - 1] = "min" /\ name[Len(name)] = "js"
NamedConfig(name) ==
    \/ name = <<"", "pylintrc">>
    \/ name = <<"eslintconfig", "js">>
    \/ name = <<"htmlhint", "config", "js">>
    \/ name = <<"stylelint", "config", "js">>
NamedSource(name) ==
    /\ Len(name) >= 2
    /\ name[Len(name)] \in {"py", "js", "html", "css", "java"}

\* The files of the walk that the claims call dispatched.  The walk also meets
\* the provisioned config files, which are config artifacts whatever repo holds.
DispatchedFiles ==
    { Rel(f) : f \in { g \in repo :
        ~NamedConfig(g.name) /\ ~NamedMinJs(g.name) /\ NamedSource(g.name) } }

\* C1: after any run of analyze_repo the workspace directory of that run no
\* longer exists, whether the run returned normally, returned early on a clone
\* failure, or ended by an exception during the walk.
C1_WorkspaceGoneAfterRun == RunOver => temp_dir \notin DOMAIN fs

\* C2: when the clone fails, the report is exactly {"Error": [message]} and the
\* workspace directory of the run no longer exists.
C2_CloneFailureReportAndCleanup ==
    (outcome = "returned" /\ CloneFailed) =>
        /\ DOMAIN report = {"Error"}
        /\ Len(report["Error"]) = 1
        /\ temp_dir \notin DOMAIN fs

\* C3: no analyzer lets an exception through: every file one of whose tool
\* invocations raised has a FileResult with error_count 1, warning_count 0 and
\* issues that begin with "Analysis failed:", and the run has not ended by an
\* exception.
C3_AnalyzersNeverPropagate ==
    /\ outcome # "raised"
    /\ \A i \in 1..Len(crashes) :
         \E e \in Entries(results) :
            LET r == results[e[1]][e[2]]
            IN  /\ r.file = crashes[i]
                /\ r.error_count = 1
                /\ r.warning_count = 0
                /\ r.issues[1][1] = "Analysis failed:"

\* C4: a tool crash on a file does not abort the run: a run in which a tool
\* crashed ends by returning a report, every file of the walk has been
\* visited, and the report holds exactly one FileResult for each dispatched
\* file, the crashed one included.
C4_CrashNeverAbortsRun ==
    (RunOver /\ crashes # <<>>) =>
        /\ outcome = "returned"
        /\ todo = {}
        /\ \A f \in DispatchedFiles :
             Cardinality({ e \in Entries(report) : report[e[1]][e[2]].file = f }) = 1

\* C5: in a successful run the number of entries over all lists of the report
\* is the number of dispatched files: those of the walk that are no config
\* artifact, no .min.js, and end in .py, .js, .html, .css or .java.
C5_EntriesEqualDispatched ==
    SuccessfulRun => TotalEntries(report) = Cardinality(DispatchedFiles)

\* A successful run over two files, one of which was dispatched.
C5_Witness ==
    /\ SuccessfulRun
    /\ Cardinality(repo) = 2
    /\ TotalEntries(report) = 1

\* C6: a file whose name ends in .min.js never appears in a list of the
\* results or of the report and never causes a tool invocation; it is only
\* logged as skipped.
C6_MinifiedNeverAnalyzed ==
    /\ \A e \in Entries(results) : ~NamedMinJs(results[e[1]][e[2]].file.name)
    /\ \A e \in Entries(report) :
         e[1] \in Langs => ~NamedMinJs(report[e[1]][e[2]].file.name)
    /\ \A i \in 1..Len(invocations) : ~NamedMinJs(invocations[i].file.name)
    /\ \A i \in 1..Len(status) :
         (status[i].kind = "Analyzing" /\ NamedMinJs(status[i].file.name)) =>
             \E j \in 1..Len(logs) : logs[j] = LogEvent("skip_minified", status[i].file)

\* A run that met a .min.js file, analyzed another file, and returned.
C6_Witness ==
    /\ SuccessfulRun
    /\ \E f \in repo : NamedMinJs(f.name)
    /\ \E j \in 1..Len(logs) : logs[j].ev = "skip_minified"
    /\ TotalEntries(report) = 1

\* C7: a file named .pylintrc, eslintconfig.js, htmlhint.config.js or
\* stylelint.config.js, in whatever directory, is never dispatched to an
\* analyzer and never appears in the results or the report.
C7_ConfigNeverDispatched ==
    /\ \A e \in Entries(results) : ~NamedConfig(results[e[1]][e[2]].file.name)
    /\ \A e \in Entries(report) :
         e[1] \in Langs => ~NamedConfig(report[e[1]][e[2]].file.name)
    /\ \A i \in 1..Len(invocations) : ~NamedConfig(invocations[i].file.name)
    /\ ~NamedConfig(cur.name)

\* A run has returned whose walk met eslintconfig.js in a subdirectory and in
\* the root, and analyzed another file.
C7_Witness ==
    /\ SuccessfulRun
    /\ [dir |-> "sub", name |-> <<"eslintconfig", "js">>] \in repo
    /\ <<"eslintconfig", "js">> \in configDir
    /\ TotalEntries(report) = 1

\* C8: a clone failure ends the run: after it there is no config provisioning,
\* no walk, no "Analyzing (...)" progress event and no tool invocation.
C8_CloneFailureIsTerminal ==
    CloneFailed =>
        /\ pc = "idle"
        /\ outcome = "returned"
        /\ todo = {}
        /\ processed_files = 0
        /\ \A i \in 1..Len(status) : status[i].kind # "Analyzing"
        /\ invocations = <<>>
        /\ temp_dir \in DOMAIN fs => \A f \in fs[temp_dir] : f.origin # "builtin"

\* The clone of a repository with files failed and there are configs to provision.
C8_Witness ==
    /\ CloneFailed
    /\ repo # {}
    /\ configDir # {}
    /\ \E f \in repo : NamedSource(f.name) /\ ~NamedConfig(f.name)

\* C9: cleanup is executed exactly once per run, after the last FileResult or
\* after the fatal clone error: a run that is over has removed its workspace
\* once, nothing runs after the removal, and it is never removed twice.
C9_CleanupExactlyOnce ==
    /\ RunOver => removed = 1
    /\ removed > 0 => pc = "idle"
    /\ removed <= 1

\* C10: a returned report has exactly the five language keys when the clone
\* succeeded, and exactly the key Error when it failed; so Error is a key if
\* and only if the clone failed.
C10_ReportKeys ==
    outcome = "returned" =>
        IF CloneFailed THEN DOMAIN report = {"Error"} ELSE DOMAIN report = Langs

\* A run over a repository with files returned five empty lists.
C10_Witness ==
    /\ SuccessfulRun
    /\ repo # {}
    /\ DOMAIN report = Langs
    /\ \A l \in Langs : report[l] = <<>>

\* The place of a file among the progress events of the run: the walk's order.
VisitIndex(rel_path) ==
    CHOOSE i \in 1..Len(status) :
        status[i].kind = "Analyzing" /\ status[i].file = rel_path

InWalkOrder(list) ==
    \A i, j \in 1..Len(list) :
        i < j => VisitIndex(list[i].file) < VisitIndex(list[j].file)

IsPrefix(s, t) == Len(s) <= Len(t) /\ SubSeq(t, 1, Len(s)) = s

\* C11: within each language list the FileResults are in walk order, in the
\* results and in the returned report, and while a run goes on a list only
\* grows at its end: nothing is reordered or removed.
C11_ListsInWalkOrder ==
    /\ [](/\ \A l \in Langs : InWalkOrder(results[l])
          /\ SuccessfulRun => \A l \in Langs : report[l] = results[l])
    /\ [][pc # "idle" => \A l \in Langs : IsPrefix(results[l], results'[l])]_vars

\* A run returned two results of one language from one directory, met in the
\* reverse order of their names.
C11_Witness ==
    /\ SuccessfulRun
    /\ listing = "reverse"
    /\ Len(report["JavaScript"]) = 2
    /\ report["JavaScript"][1].file = [dir |-> "sub", name |-> <<"c", "js">>]
    /\ report["JavaScript"][2].file = [dir |-> "sub", name |-> <<"b", "js">>]

\* C12: each run allocates exactly one workspace, a directory that did not
\* exist and is empty; the directories other runs left are not touched by
\* it, and its walk reads the files of its own workspace only.
C12_FreshWorkspacePerRun ==
    /\ [][(pc = "idle" /\ pc' = "clone") =>
            /\ temp_dir' \notin DOMAIN fs
            /\ DOMAIN fs' = DOMAIN fs \cup {temp_dir'}
            /\ fs'[temp_dir'] = {}
            /\ \A d \in DOMAIN fs : fs'[d] = fs[d]]_vars
    /\ [][pc # "idle" =>
            /\ temp_dir' = temp_dir
            /\ DOMAIN fs' \subseteq DOMAIN fs
            /\ \A d \in DOMAIN fs' \ {temp_dir} : fs'[d] = fs[d]]_vars
    /\ [](pc \in {"walk", "tool"} =>
            /\ temp_dir \in DOMAIN fs
            /\ todo \subseteq fs[temp_dir]
            /\ \A f \in fs[temp_dir] : f.origin = "builtin" \/ Rel(f) \in repo)

\* A second run of the same repository walks its own workspace while the
\* workspace an earlier run left behind, files and all, still exists.
C12_Witness ==
    /\ pc = "walk"
    /\ todo # {}
    /\ \E d \in DOMAIN fs \ {temp_dir} : fs[d] # {}

\* The file of that name at the root of the current workspace is the built-in
\* one, and no file of the repository has that place.
HoldsBuiltIn(name) ==
    /\ [dir |-> ".", name |-> name, origin |-> "builtin"] \in fs[temp_dir]
    /\ [dir |-> ".", name |-> name, origin |-> "repo"] \notin fs[temp_dir]

\* C13 as stated: once create_linter_configs has returned, each of the four
\* config files at the workspace root holds the built-in content, whatever
\* the repository contained.
C13_AllFourProvisioned ==
    pc \in {"walk", "tool"} =>
        \A i \in 1..Len(ConfigFiles) : HoldsBuiltIn(ConfigFiles[i])

\* C13 as amended: once create_linter_configs has returned, each config file
\* that exists in the built-in config directory holds the built-in content at
\* the workspace root, whatever the repository contained; a config file the
\* built-in directory lacks is not provisioned, and the root keeps what the
\* repository had under that name.
C13_ExistingConfigsProvisioned ==
    pc \in {"walk", "tool"} =>
        \A i \in 1..Len(ConfigFiles) :
            IF ConfigFiles[i] \in configDir THEN HoldsBuiltIn(ConfigFiles[i])
            ELSE /\ [dir |-> ".", name |-> ConfigFiles[i], origin |-> "builtin"]
                        \notin fs[temp_dir]
                 /\ [dir |-> ".", name |-> ConfigFiles[i], origin |-> "repo"]
                        \in fs[temp_dir]
                    <=> [dir |-> ".", name |-> ConfigFiles[i]] \in repo

\* The repository brought its own .pylintrc and the built-in one took its place.
C13_Witness ==
    /\ pc = "walk"
    /\ [dir |-> ".", name |-> <<"", "pylintrc">>] \in repo
    /\ <<"", "pylintrc">> \in configDir
    /\ HoldsBuiltIn(<<"", "pylintrc">>)

\* The result of the call, once an analyzer that rates has returned one.
RatedResults ==
    { results[l][i] : <<l, i>> \in
        { e \in Entries(results) : e[1] \in {"Python", "JavaScript"} } }

\* C14: for the totals the Python and the JavaScript analyzer compute (no
\* tool invocation raised), the rating is "Good" exactly when there are no
\* errors and no warnings, "Poor" exactly when there are more than 5 errors,
\* and "Needs Improvement" otherwise.
C14_RatingThresholds ==
    crashes = <<>> =>
        \A r \in RatedResults :
            /\ r.rating = "Good" <=> (r.error_count = 0 /\ r.warning_count = 0)
            /\ r.rating = "Poor" <=> r.error_count > 5
            /\ r.rating = "Needs Improvement" <=>
                   (r.error_count <= 5 /\ (r.error_count > 0 \/ r.warning_count > 0))

\* Five errors, two of them Pylint's, are rated "Needs Improvement".
C14_Witness ==
    /\ pc = "analyzed"
    /\ cur = PythonFile
    /\ crashes = <<>>
    /\ results["Python"][1].error_count = 5
    /\ results["Python"][1].rating = "Needs Improvement"

\* The exit codes an analyzer takes as "the tool ran": 0 for Checkstyle, 0 and
\* 1 for the others.
AcceptedExitCodes(lang) == IF lang = "Java" THEN {0} ELSE {0, 1}

\* The tool (Pylint for Python) ran and returned an exit code that the
\* analyzer does not accept; nothing raised.
UnexpectedExitCode ==
    /\ pc = "analyzed"
    /\ crashes = <<>>
    /\ ~NamedMinJs(cur.name)
    /\ \E e \in Entries(results) : probe[1].rc \notin AcceptedExitCodes(e[1])

\* C15: a linter that ran and returned an unexpected exit code yields the
\* failure result: error_count is 1 and the issues text is an explanation (so
\* not the empty text of a clean file).
C15_UnexpectedExitCodeIsFailure ==
    UnexpectedExitCode =>
        \A e \in Entries(results) :
            /\ results[e[1]][e[2]].error_count = 1
            /\ results[e[1]][e[2]].issues # <<>>

ThreeRatings == {"Good", "Needs Improvement", "Poor"}

Crashed(file) == \E i \in 1..Len(crashes) : crashes[i] = file

\* C16 as claimed: in every report only Python and JavaScript FileResults
\* carry a rating, and every rating is "Good", "Needs Improvement" or "Poor",
\* for failed analyses too.
C16_RatingOneOfThree ==
    SuccessfulRun =>
        \A e \in Entries(report) :
            LET r == report[e[1]][e[2]]
            IN  IF "rating" \in DOMAIN r
                THEN e[1] \in {"Python", "JavaScript"} /\ r.rating \in ThreeRatings
                ELSE e[1] \notin {"Python", "JavaScript"}

\* C16 amended: in every report exactly the Python and JavaScript FileResults
\* carry a rating; it is "Error" for a Python file one of whose tool
\* invocations raised, and "Good", "Needs Improvement" or "Poor" otherwise.
C16_RatingOrError ==
    SuccessfulRun =>
        \A e \in Entries(report) :
            LET r == report[e[1]][e[2]]
            IN  IF e[1] \in {"Python", "JavaScript"}
                THEN /\ "rating" \in DOMAIN r
                     /\ IF e[1] = "Python" /\ Crashed(r.file)
                        THEN r.rating = "Error"
                        ELSE r.rating \in ThreeRatings
                ELSE "rating" \notin DOMAIN r

\* A report with a failed Python analysis next to an unrated HTML result.
C16_Witness ==
    /\ SuccessfulRun
    /\ Len(report["Python"]) = 1
    /\ Crashed(report["Python"][1].file)
    /\ report["Python"][1].rating = "Error"
    /\ Len(report["HTML"]) = 1
    /\ "rating" \notin DOMAIN report["HTML"][1]

\* The stream the claims select: stdout for an accepted exit code, else stderr.
Selected(o, accepted) == IF o.rc \in accepted THEN o.stdout ELSE o.stderr

\* The Python issues text as laid out around the Pylint part.
PylintSection(text) ==
    << <<"Pylint Issues:">> >> \o text \o << <<>>, <<"Flake8 Issues:">> >>

\* C17: the issues text of HTMLHint, Stylelint and Pylint is the tool's stdout
\* for exit code 0 or 1 and its stderr otherwise; for Checkstyle it is stdout
\* for exit code 0 only and stderr for every other exit code, 1 included.
C17_IssuesByExitCode ==
    (pc = "analyzed" /\ crashes = <<>>) =>
        /\ \A i \in 1..Len(results["HTML"]) :
             results["HTML"][i].issues = Selected(probe[1], {0, 1})
        /\ \A i \in 1..Len(results["CSS"]) :
             results["CSS"][i].issues = Selected(probe[1], {0, 1})
        /\ \A i \in 1..Len(results["Python"]) :
             IsPrefix(PylintSection(Selected(probe[1], {0, 1})),
                      results["Python"][i].issues)
        /\ \A i \in 1..Len(results["Java"]) :
             results["Java"][i].issues = Selected(probe[1], {0})

\* Checkstyle exits 1 with findings on stdout: the issues text is its stderr.
C17_Witness ==
    /\ pc = "analyzed"
    /\ cur = JavaFile
    /\ crashes = <<>>
    /\ probe[1].rc = 1
    /\ probe[1].stdout # <<>>
    /\ probe[1].stderr # probe[1].stdout
    /\ results["Java"][1].issues = probe[1].stderr

\* The text "ESLint Error: <stderr>".
ESLintErrorText(stderr) ==
    IF stderr = <<>> THEN << <<"ESLint Error:">> >>
    ELSE << <<"ESLint Error:">> \o Head(stderr) >> \o Tail(stderr)

\* C18: the issues text of the JavaScript analyzer is ESLint's stdout (without
\* the blank lines around it) for exit code 0 or 1, and "ESLint Error:"
\* followed by its stderr for any other exit code.
C18_ESLintErrorText ==
    (pc = "analyzed" /\ crashes = <<>> /\ ~NamedMinJs(cur.name)) =>
        \A i \in 1..Len(results["JavaScript"]) :
            results["JavaScript"][i].issues =
                IF probe[1].rc \in {0, 1} THEN Strip(probe[1].stdout)
                ELSE ESLintErrorText(probe[1].stderr)

\* The number of non-empty lines of a text.
NonEmptyLines(text) == Cardinality({ i \in 1..Len(text) : text[i] # <<>> })

\* The number of lines from the first to the last non-empty line of a text,
\* the blank lines between them included.
SpannedLines(text) ==
    LET full == { i \in 1..Len(text) : text[i] # <<>> }
    IN  IF full = {} THEN 0
        ELSE (CHOOSE i \in full : \A j \in full : j <= i)
             - (CHOOSE i \in full : \A j \in full : i <= j) + 1

PylintErrors == Count(Selected(probe[1], {0, 1}), "error")
                + Count(Selected(probe[1], {0, 1}), "Error")
PylintWarnings == Count(Selected(probe[1], {0, 1}), "warning")
                  + Count(Selected(probe[1], {0, 1}), "Warning")

BothPythonToolsRan == pc = "analyzed" /\ cur = PythonFile /\ crashes = <<>>

\* C19 as claimed: for a Python file whose two tools ran, error_count is the
\* number of "error" and "Error" in the Pylint issues text plus the number of
\* non-empty lines of Flake8's stdout, and warning_count the number of
\* "warning" and "Warning" in the Pylint issues text.
C19_FlakeNonEmptyLines ==
    BothPythonToolsRan =>
        /\ results["Python"][1].error_count =
               PylintErrors + NonEmptyLines(probe[2].stdout)
        /\ results["Python"][1].warning_count = PylintWarnings

\* C19 amended: Flake8's part of error_count is the number of lines of its
\* stdout from the first non-empty line to the last, blank lines between
\* them included.
C19_FlakeSpannedLines ==
    BothPythonToolsRan =>
        /\ results["Python"][1].error_count =
               PylintErrors + SpannedLines(probe[2].stdout)
        /\ results["Python"][1].warning_count = PylintWarnings

\* Flake8 prints two findings with a blank line between them: three errors.
C19_Witness ==
    /\ BothPythonToolsRan
    /\ probe[2].stdout = << <<"a">>, <<>>, <<"b">> >>
    /\ PylintErrors = 0
    /\ results["Python"][1].error_count = 3

IsAnalyzing(s) == s.kind = "Analyzing"
IsProcessing(l) == l.ev = "processing"
AnalyzingEvents == SelectSeq(status, IsAnalyzing)
ProcessingLogs == SelectSeq(logs, IsProcessing)

\* C20: in the walk the processed counter goes up by exactly one for each file
\* that is no config artifact (unsupported extensions and .min.js included)
\* and stays as it is for each skipped config artifact; the progress events of
\* a run carry processed = 1, 2, ..., n in this order, and each comes with a
\* "Processing" log event for the same file.
C20_ProcessedCounter ==
    /\ [](/\ Len(AnalyzingEvents) = processed_files
          /\ \A k \in 1..Len(AnalyzingEvents) : AnalyzingEvents[k].processed = k
          /\ Len(ProcessingLogs) = Len(AnalyzingEvents)
          /\ \A k \in 1..Len(AnalyzingEvents) :
               ProcessingLogs[k].file = AnalyzingEvents[k].file)
    /\ [][pc = "walk" =>
            /\ todo' # todo =>
                 \E f \in todo :
                    /\ todo' = todo \ {f}
                    /\ processed_files' =
                           processed_files + (IF NamedConfig(f.name) THEN 0 ELSE 1)
            /\ todo' = todo => processed_files' = processed_files]_vars

\* A finished walk that counted an unsupported file and a .min.js file and
\* skipped a config artifact.
C20_Witness ==
    /\ SuccessfulRun
    /\ processed_files = 2
    /\ \E i \in 1..Len(logs) : logs[i].ev = "skip_config"
    /\ \E k \in 1..2 : AnalyzingEvents[k].file.name = <<"README">>
    /\ \E k \in 1..2 : NamedMinJs(AnalyzingEvents[k].file.name)

\* The walk of the current run is under way.
Walking == pc \in {"walk", "tool"}

\* C21 as claimed: the progress denominator is the number of files of the
\* workspace when the walk begins, provisioned config artifacts included, and
\* every progress event of the walk carries it.
C21_TotalCountsWorkspace ==
    Walking =>
        /\ total_files = Cardinality(fs[temp_dir])
        /\ \A k \in 1..Len(AnalyzingEvents) :
             AnalyzingEvents[k].total = total_files

\* C21 amended: the denominator is the number of files of the clone, counted
\* before the config files are provisioned, and does not change during the
\* walk.
C21_TotalCountsClone ==
    /\ [](Walking =>
            /\ total_files = Cardinality(repo)
            /\ \A k \in 1..Len(AnalyzingEvents) :
                 AnalyzingEvents[k].total = total_files)
    /\ [][Walking /\ Walking' => total_files' = total_files]_vars

\* The end of a walk over a workspace that holds more files than were
\* counted, a non-matching file among those counted.
C21_Witness ==
    /\ pc = "walk"
    /\ todo = {}
    /\ total_files = 2
    /\ Cardinality(fs[temp_dir]) > 2
    /\ \E k \in 1..Len(AnalyzingEvents) : AnalyzingEvents[k].file.name = <<"README">>

HasResult(file) == \E e \in Entries(results) : results[e[1]][e[2]].file = file
Invoked == { invocations[i].file : i \in 1..Len(invocations) }

\* C22: dispatch is strictly sequential: a tool is in flight for at most one
\* file, the file being analyzed; the FileResult of every other file that had
\* a tool started is in the lists before the walk takes its next file; and
\* Flake8 is started for a file only when Pylint has returned for it.
C22_SequentialDispatch ==
    /\ [](/\ pc = "walk" => \A f \in Invoked : HasResult(f)
          /\ pc = "tool" => /\ cur \in Invoked
                            /\ ~HasResult(cur)
                            /\ \A f \in Invoked \ {cur} : HasResult(f))
    /\ [][/\ (Walking /\ todo' # todo) => pc = "walk"
          /\ (Walking /\ Len(invocations') > Len(invocations)) =>
                /\ Len(invocations') = Len(invocations) + 1
                /\ LET started == invocations'[Len(invocations')]
                   IN  IF started.tool = "flake8"
                       THEN /\ pc = "tool" /\ tool = "pylint"
                            /\ started.file = cur
                            /\ invocations[Len(invocations)] =
                                   [started EXCEPT !.tool = "pylint"]
                            /\ pending' # NoOutcome
                       ELSE pc = "walk"]_vars

\* Flake8 in flight for the second file of a walk, the first one resolved.
C22_Witness ==
    /\ pc = "tool"
    /\ tool = "flake8"
    /\ TotalEntries(results) = 1
    /\ Len(invocations) = 3

\* The list a file name belongs to by its suffix, as the claim spells it.
SuffixKey(name) ==
    IF Len(name) < 2 THEN "none"
    ELSE CASE name[Len(name)] = "py" -> "Python"
           [] name[Len(name)] = "js" -> "JavaScript"
           [] name[Len(name)] = "html" -> "HTML"
           [] name[Len(name)] = "css" -> "CSS"
           [] name[Len(name)] = "java" -> "Java"
           [] OTHER -> "none"

ToolsOf(key) ==
    CASE key = "Python" -> {"pylint", "flake8"}
      [] key = "JavaScript" -> {"eslint"}
      [] key = "HTML" -> {"htmlhint"}
      [] key = "CSS" -> {"stylelint"}
      [] key = "Java" -> {"checkstyle"}
      [] OTHER -> {}

\* The files the walk has taken so far.
Visited == IF Walking THEN { Rel(f) : f \in fs[temp_dir] \ todo } ELSE {}

\* C23: a file is routed to at most one analyzer, the one of its
\* case-sensitive suffix: every FileResult sits in the list of its suffix,
\* once, and every tool started on a file is a tool of its suffix; a visited
\* file of any other suffix that is no config artifact has no FileResult and
\* no tool invocation, but has its progress event and its "Processing" log.
C23_RoutedBySuffix ==
    /\ \A e \in Entries(results) :
         /\ SuffixKey(results[e[1]][e[2]].file.name) = e[1]
         /\ \A d \in Entries(results) :
              results[d[1]][d[2]].file = results[e[1]][e[2]].file => d = e
    /\ \A i \in 1..Len(invocations) :
         invocations[i].tool \in ToolsOf(SuffixKey(invocations[i].file.name))
    /\ \A f \in Visited :
         (SuffixKey(f.name) = "none" /\ ~NamedConfig(f.name)) =>
            /\ ~HasResult(f)
            /\ f \notin Invoked
            /\ \E k \in 1..Len(AnalyzingEvents) : AnalyzingEvents[k].file = f
            /\ \E k \in 1..Len(ProcessingLogs) : ProcessingLogs[k].file = f

\* The end of a walk over a.py and x.PY: one Python result, x.PY only counted.
C23_Witness ==
    /\ pc = "walk"
    /\ todo = {}
    /\ Len(results["Python"]) = 1
    /\ results["Python"][1].file.name = <<"a", "py">>
    /\ \E f \in Visited : f.name = <<"x", "PY">>
    /\ processed_files = 2

\* C24: analyze_javascript on a path that ends in .min.js starts no tool and
\* returns a FileResult with error_count 0, warning_count 0 and rating "Good",
\* whatever the tool would have done.
C24_MinifiedSynthetic ==
    (pc = "analyzed" /\ NamedMinJs(cur.name)) =>
        /\ invocations = <<>>
        /\ outcome # "raised"
        /\ Len(results["JavaScript"]) = 1
        /\ results["JavaScript"][1].file = cur
        /\ results["JavaScript"][1].error_count = 0
        /\ results["JavaScript"][1].warning_count = 0
        /\ results["JavaScript"][1].rating = "Good"

\* The call on lib.min.js where ESLint, had it been started, would have raised.
C24_Witness ==
    /\ pc = "analyzed"
    /\ cur.name = <<"lib", "min", "js">>
    /\ probe[1].raised
    /\ Len(results["JavaScript"]) = 1

\* The files the walk of the current run meets: those of the clone and the
\* config files provisioned at its root.
WalkFiles ==
    { Rel(f) : f \in repo } \cup { [dir |-> ".", name |-> c] : c \in configDir }

\* The number of times the walk took file f: progress events for f, or, for a
\* config artifact, skip log lines for its name shared among the files so named.
Visits(f) ==
    IF NamedConfig(f.name)
    THEN Cardinality({ i \in 1..Len(logs) :
                         logs[i].ev = "skip_config" /\ logs[i].file.name = f.name })
         - Cardinality({ g \in WalkFiles : g.name = f.name }) + 1
    ELSE Cardinality({ k \in 1..Len(AnalyzingEvents) : AnalyzingEvents[k].file = f })

\* C25: when the clone and every tool invocation return, a run of
\* analyze_repo ends; a run that went through its walk has taken each file of
\* the walk exactly once, and no file is ever taken twice.
C25_RunTerminates ==
    /\ (pc # "idle") ~> (pc = "idle" /\ RunOver)
    /\ [](SuccessfulRun => \A f \in WalkFiles : Visits(f) = 1)
    /\ [](\A k, j \in 1..Len(AnalyzingEvents) :
             AnalyzingEvents[k].file = AnalyzingEvents[j].file => k = j)

\* A finished run over a root file and a file of a subdirectory, with the
\* config files provisioned.
C25_Witness ==
    /\ SuccessfulRun
    /\ configDir = SkipNames
    /\ \E f \in WalkFiles : f.dir = "sub" /\ ~NamedConfig(f.name) /\ Visits(f) = 1
    /\ \E f \in WalkFiles : f.dir = "." /\ ~NamedConfig(f.name) /\ Visits(f) = 1

\* C26: every progress event of the core orchestrator has
\* 1 <= processed <= total, although total is counted before provisioning:
\* the files provisioning puts into the workspace bear skipped config names,
\* and no progress event is made for them.
C26_ProcessedWithinTotal ==
    /\ \A k \in 1..Len(AnalyzingEvents) :
         /\ 1 <= AnalyzingEvents[k].processed
         /\ AnalyzingEvents[k].processed <= AnalyzingEvents[k].total
    /\ Walking =>
         \A f \in fs[temp_dir] :
            f.origin = "builtin" =>
               /\ NamedConfig(f.name)
               /\ \A k \in 1..Len(AnalyzingEvents) : AnalyzingEvents[k].file # Rel(f)

\* The last progress event of a walk over two counted files and four
\* provisioned config files: processed = total = 2.
C26_Witness ==
    /\ pc = "walk"
    /\ todo = {}
    /\ Cardinality(fs[temp_dir]) = 6
    /\ Len(AnalyzingEvents) = 2
    /\ AnalyzingEvents[2].processed = 2
    /\ AnalyzingEvents[2].total = 2

\* C27: in the standalone orchestrator every progress event has
\* processed <= total (so the percentage stays within 100), and the config
\* files written at the workspace root are not analyzed as source files.
C27_StandaloneWithinTotal ==
    /\ \A k \in 1..Len(AnalyzingEvents) :
         AnalyzingEvents[k].processed <= AnalyzingEvents[k].total
    /\ \A e \in Entries(results) :
         ~(/\ results[e[1]][e[2]].file.dir = "."
           /\ NamedConfig(results[e[1]][e[2]].file.name))

\* C28: the Python analyzer is all-or-nothing over its two tools: when
\* Pylint or Flake8 cannot be invoked the one FileResult of the file is the
\* failure result (error_count 1, warning_count 0, issues "Analysis failed:
\* ..." and nothing else), also when Pylint had already returned findings;
\* otherwise it carries both tools' sections.
C28_PythonAllOrNothing ==
    (pc = "analyzed" /\ cur = PythonFile) =>
        /\ Len(results["Python"]) = 1
        /\ LET r == results["Python"][1]
           IN  IF probe[1].raised \/ probe[2].raised
               THEN /\ r.error_count = 1
                    /\ r.warning_count = 0
                    /\ Len(r.issues) = 1
                    /\ r.issues[1][1] = "Analysis failed:"
               ELSE /\ r.issues[1] = <<"Pylint Issues:">>
                    /\ \E i \in 1..Len(r.issues) : r.issues[i] = <<"Flake8 Issues:">>

\* Pylint returned with findings and Flake8 could not be started.
C28_Witness ==
    /\ pc = "analyzed"
    /\ cur = PythonFile
    /\ ~probe[1].raised
    /\ probe[1].rc = 1
    /\ Count(probe[1].stdout, "error") > 0
    /\ Count(probe[1].stdout, "warning") > 0
    /\ probe[2].raised
    /\ results["Python"][1].error_count = 1

\* The analyze_javascript of repo_analyzer.py agrees with the imported one
\* on the call just made.
AgreesWithImported ==
    LET other == javascript_analyzer_analyze_javascript(cur, probe[1])
    IN  IF other.propagates
        THEN outcome = "raised" /\ results["JavaScript"] = <<>>
        ELSE outcome # "raised" /\ results["JavaScript"] = << other.res >>

\* C30: on every file path and every tool outcome the analyze_javascript
\* defined in repo_analyzer.py, which is the one the walk calls, yields the
\* FileResult or the exception that analyze_javascript of
\* analyzers/javascript_analyzer.py yields; and the walk never reaches its
\* .min.js branch: for such a file it makes no call and appends no result.
C30_ShadowingEquivalent ==
    /\ (pc = "analyzed" /\ cur \in JavaScriptFiles) => AgreesWithImported
    /\ pc = "walked" =>
         IF NamedMinJs(cur.name)
         THEN /\ results["JavaScript"] = <<>>
              /\ invocations = <<>>
              /\ outcome # "raised"
         ELSE AgreesWithImported

\* The direct call on a .js file whose ESLint exits 2 with six lines on stdout.
C30_Witness ==
    /\ pc = "analyzed"
    /\ cur.name = <<"b", "js">>
    /\ probe[1].rc = 2
    /\ probe[1].stderr # <<>>
    /\ Len(results["JavaScript"]) = 1
    /\ results["JavaScript"][1].error_count = 6
    /\ results["JavaScript"][1].rating = "Poor"

\* The FileResult of a file as a function of its relative path and of the
\* outcomes of its own tools (the first one matters for Python only).
OwnResult(lang, rel_path, first, last) ==
    CASE lang = "Python" -> analyze_python(rel_path, first, last)
      [] lang = "JavaScript" -> JavaScriptResult(rel_path, last)
      [] lang = "HTML" -> analyze_html(rel_path, last)
      [] lang = "CSS" -> analyze_css(rel_path, last)
      [] lang = "Java" -> analyze_java(rel_path, last)

====
